---- MODULE Spec2Model ----
(***************************************************************************)
(* Chemical Company API (src/main.py, src/schemas.py).                     *)
(*                                                                         *)
(* The state is the process-wide store handle `db`, the content of the     *)
(* nine collections of the document store, and the last request served     *)
(* with the store's answer to it and the HTTP response.  Every route of    *)
(* src/main.py is one action.                                              *)
(*                                                                         *)
(* Encoding.  A text that is searched with $regex is a sequence of         *)
(* one-character strings; every other string is a TLA+ string.  A field    *)
(* whose value is null is left out of the record.  A stored record carries *)
(* the store's identifier under "_id".                                     *)
(***************************************************************************)
EXTENDS Integers, Sequences, FiniteSets, TLC

VARIABLES db, store, request, outcome, response

vars == <<db, store, request, outcome, response>>

(* ------------------------------ bounds -------------------------------- *)
\* most records the store holds in total (initial content plus inserts)
MaxRecords == 2
\* most pattern elements in a search text q
MaxQLen == 1

\* longest error text the store's driver raises with
MaxErrorLen == 51

(* ----------------------------- constants ------------------------------ *)
\* str(e)[:50]
ErrorCut == 50
\* collections[:10]
CollectionsCut == 10

(* --------------------------- small helpers ---------------------------- *)
SeqsOfLen(S, n) == [1..n -> S]

SeqsUpTo(S, n) == UNION {SeqsOfLen(S, k) : k \in 0..n}

Take(s, n) == SubSeq(s, 1, IF Len(s) < n THEN Len(s) ELSE n)

Restrict(r, keys) == [k \in DOMAIN r \cap keys |-> r[k]]


(* An optional value: <<>> is None (parameter not supplied), <<v>> is v. *)
Opt(S) == {<<>>} \cup {<<v>> : v \in S}

(* Python truthiness of an Optional[str]: None and "" are falsy
   (`if category:`, `if q:`, `if tag else`).  Truthy is for a plain string,
   TruthyText for a text kept as a sequence of characters. *)
Truthy(o) == o # <<>> /\ o[1] # ""

TruthyText(o) == o # <<>> /\ Len(o[1]) > 0

(* ------------------------------ schemas ------------------------------- *)
Collections ==
  {"category", "product", "sector", "news", "document", "job",
   "application", "contactmessage", "companyprofile"}

CollectionOrder ==
  <<"category", "product", "sector", "news", "document", "job",
    "application", "contactmessage", "companyprofile">>

CategoryFields == {"name", "slug", "description"}

ProductFields ==
  {"name", "slug", "category", "summary", "description", "applications",
   "benefits", "sectors", "documentation_urls", "keywords", "image_url"}

SectorFields ==
  {"name", "slug", "challenges", "needs", "solutions", "outcomes", "image_url"}

NewsFields ==
  {"title", "slug", "excerpt", "content", "cover_image_url", "published_at", "tags"}

DocumentFields ==
  {"title", "description", "url", "category", "product_slug", "language"}

JobFields ==
  {"title", "slug", "location", "department", "type", "description", "requirements"}

ApplicationFields ==
  {"name", "email", "phone", "job_slug", "message", "cv_url", "linkedin_url"}

(* variant: email declared Optional *)
ApplicationRequired_nameOnly == {"name"}

ApplicationRequired == {"name", "email"}

(* variant: the schema without its topic field *)
ContactMessageFields_noTopic ==
  {"name", "email", "phone", "company", "subject", "message"}

ContactMessageFields ==
  {"name", "email", "phone", "company", "subject", "message", "topic"}

ContactMessageRequired == {"name", "email", "message"}

CompanyProfileFields ==
  {"company_name", "mission", "vision", "values", "history", "facilities",
   "locations", "quality_approach", "safety_approach", "innovation_approach"}

(* The fields a schema declares as List[str]: a filter on one of them is a
   membership test, a $regex on one of them tries every element. *)
ListFields ==
  {"applications", "benefits", "sectors", "documentation_urls", "keywords",
   "challenges", "needs", "solutions", "outcomes", "tags", "requirements",
   "values", "facilities", "locations"}

(* Request-body validation of a pydantic model: every required field must be
   present (a null counts as missing); unknown fields are ignored; the
   validated record keeps the declared fields that were supplied. *)
MissingFields(required, body) == required \ DOMAIN body

Validate(fields, body) == Restrict(body, fields)

(* --------------------- content the model draws from ------------------- *)
CategoryPool ==
  {[name |-> "Leather", slug |-> "cat"]}

ProductPool ==
  {[name |-> <<"a", "b">>, slug |-> "p1", category |-> "cat",
    applications |-> <<>>, benefits |-> <<>>, sectors |-> <<>>,
    documentation_urls |-> <<>>, keywords |-> <<>>],
   [name |-> <<"b">>, slug |-> "p1", category |-> "Cat", summary |-> <<"A">>,
    applications |-> <<>>, benefits |-> <<>>, sectors |-> <<>>,
    documentation_urls |-> <<>>, keywords |-> <<>>],
   [name |-> <<"b">>, slug |-> "p2", category |-> "",
    description |-> <<"b", ".">>,
    applications |-> <<>>, benefits |-> <<>>, sectors |-> <<>>,
    documentation_urls |-> <<>>, keywords |-> << <<"b">>, <<"A", "a">> >>]}

SectorPool ==
  {[name |-> "Tannery", slug |-> "s1", challenges |-> <<>>, needs |-> <<>>,
    solutions |-> <<>>, outcomes |-> <<>>],
   [name |-> "Textile", slug |-> "s1", challenges |-> <<"cost">>, needs |-> <<>>,
    solutions |-> <<>>, outcomes |-> <<>>]}

NewsPool ==
  {[title |-> "n1", slug |-> "n1", tags |-> <<>>],
   [title |-> "n2", slug |-> "n2", tags |-> <<"t">>],
   [title |-> "n3", slug |-> "n3", tags |-> <<"tt", "u">>]}

DocumentPool ==
  {[title |-> "d1", url |-> "http://d/1", category |-> "datasheet",
    product_slug |-> "p1", language |-> "it"]}

JobPool ==
  {[title |-> "j2", slug |-> "j2", department |-> "lab", requirements |-> <<>>]}

CompanyProfilePool ==
  {[company_name |-> "Acme", values |-> <<>>, facilities |-> <<>>, locations |-> <<>>],
   [company_name |-> "Beta", mission |-> "m", values |-> <<>>, facilities |-> <<>>,
    locations |-> <<>>]}

(* what the requests are drawn from *)
CategoryInputs == {"", "cat"}

ProductSlugInputs == {"p1", "p2", "zz"}

SectorSlugInputs == {"s1", "zz"}

TagInputs == {"", "t", "u"}

DepartmentInputs == {"", "lab"}

(* A search text is made of pattern elements: a letter, `.`, a lone `*`, or a
   letter followed by `*`. *)
QElements == {<<"A">>, <<".">>, <<"*">>, <<"A", "*">>}

RECURSIVE Concat(_)
Concat(ss) == IF ss = <<>> THEN <<>> ELSE Head(ss) \o Concat(Tail(ss))

QInputs == {Concat(es) : es \in SeqsUpTo(QElements, MaxQLen)}

(* what db.list_collection_names() may answer *)
DatabaseNames == CollectionOrder \o <<"system.views", "sessions">>

ErrorText(n) == [i \in 1..n |-> "e"]

ProbeAnswers ==
  {[call |-> "ok", names |-> Take(DatabaseNames, n)] :
      n \in {0, CollectionsCut, Len(DatabaseNames)}}
  \cup {[call |-> "raised", error |-> ErrorText(n)] : n \in {ErrorCut, MaxErrorLen}}

ApplicationBodies ==
  UNION {[F -> {"x"}] : F \in SUBSET {"name", "email", "_id"}}

ContactBodies ==
  UNION {[F -> {"y"}] : F \in SUBSET {"name", "email", "message", "topic"}}

(* ------------------- the store's matching operators ------------------- *)
(* Case folding of the "i" option. *)
Fold(c) ==
  CASE c = "A" -> "a"
    [] c = "B" -> "b"
    [] OTHER -> c

(* One pattern character against one text character: `.` matches any. *)
CharMatches(pc, c) == pc = "." \/ Fold(pc) = Fold(c)

(* A pattern the regex engine compiles: `*` needs something to repeat. *)
ValidPattern(p) ==
  \A i \in 1..Len(p) : p[i] = "*" => (i > 1 /\ p[i - 1] # "*")

(* p matches a prefix of s: literals, `.` and the postfix `*`. *)
RECURSIVE MatchHere(_, _)
MatchHere(p, s) ==
  IF p = <<>> THEN TRUE
  ELSE IF Len(p) >= 2 /\ p[2] = "*"
    THEN \E k \in 0..Len(s) :
           /\ \A i \in 1..k : CharMatches(p[1], s[i])
           /\ MatchHere(SubSeq(p, 3, Len(p)), SubSeq(s, k + 1, Len(s)))
    ELSE /\ s # <<>>
         /\ CharMatches(p[1], s[1])
         /\ MatchHere(Tail(p), Tail(s))

(* {"$regex": p, "$options": "i"} on a text: an unanchored search. *)
RegexSearch(p, s) ==
  \E i \in 1..(Len(s) + 1) : MatchHere(p, SubSeq(s, i, Len(s)))

(* One clause {field: {"$regex": p, "$options": "i"}} on a record: a null or
   missing field never matches, a list field matches when an element does. *)
RegexClause(doc, field, p) ==
  /\ field \in DOMAIN doc
  /\ IF field \in ListFields
       THEN \E i \in 1..Len(doc[field]) : RegexSearch(p, doc[field][i])
       ELSE RegexSearch(p, doc[field])

(* One clause {field: value}: equality, or membership for a list field. *)
EqualsClause(doc, field, value) ==
  /\ field \in DOMAIN doc
  /\ IF field \in ListFields
       THEN \E i \in 1..Len(doc[field]) : doc[field][i] = value
       ELSE doc[field] = value

(* A filter maps field names to values; the key "$or" maps to a sequence of
   [field, regex] clauses. All keys must hold. *)
EmptyFilter == [k \in {} |-> ""]

Matches(doc, flt) ==
  \A k \in DOMAIN flt :
    IF k = "$or"
      THEN \E i \in 1..Len(flt[k]) : RegexClause(doc, flt[k][i].field, flt[k][i].regex)
      ELSE EqualsClause(doc, k, flt[k])

FilterCompiles(flt) ==
  "$or" \in DOMAIN flt =>
     \A i \in 1..Len(flt["$or"]) : ValidPattern(flt["$or"][i].regex)

(* -------------------------- the store accessor ------------------------ *)
ObjectId(coll, i) == <<coll, i>>

(* What the store holds for the records `docs` put into `coll` in order. *)
Stored(coll, docs) ==
  [i \in 1..Len(docs) |-> docs[i] @@ ("_id" :> ObjectId(coll, i))]

EmptyStore == [c \in Collections |-> <<>>]

RECURSIVE SumLen(_, _)
SumLen(st, cs) ==
  IF cs = {} THEN 0
  ELSE LET c == CHOOSE x \in cs : TRUE IN Len(st[c]) + SumLen(st, cs \ {c})

TotalRecords(st) == SumLen(st, Collections)

Raised == [raised |-> TRUE, items |-> <<>>]

(* get_documents(collection_name, filter, limit): the matching records in
   store order, cut to `limit` when one is given (0: none given). It raises
   when the handle is unset, when the store does not answer (up = FALSE) or
   when the store rejects the filter. *)
get_documents(coll, flt, limit, up) ==
  IF ~db \/ ~up \/ ~FilterCompiles(flt)
    THEN Raised
    ELSE LET found == SelectSeq(store[coll], LAMBDA d : Matches(d, flt))
         IN [raised |-> FALSE,
             items |-> IF limit = 0 THEN found ELSE Take(found, limit)]

(* create_document(collection_name, record): the store after the insert; the
   record is kept as validated, with a fresh identifier. *)
create_document(coll, rec) ==
  [store EXCEPT ![coll] =
     Append(@, rec @@ ("_id" :> ObjectId(coll, Len(@) + 1)))]

(* ------------------------------ responses ----------------------------- *)
Ok(body) == [status |-> 200, body |-> body]

ServerError == [status |-> 500, body |-> [detail |-> "Internal Server Error"]]

HTTPException(code, detail) == [status |-> code, body |-> [detail |-> detail]]

ValidationError(missing) == [status |-> 422, body |-> [detail |-> missing]]

(* variant: the pop left out *)
PopId_keeps(it) == it

(* it.pop("_id", None) *)
PopId(it) == [k \in DOMAIN it \ {"_id"} |-> it[k]]

_serialize_list(items) == [i \in 1..Len(items) |-> PopId(items[i])]

(* response_model=<schema>: only the fields the schema declares are sent. *)
ResponseModel(fields, it) == Restrict(it, fields)

ResponseList(fields, items) == [i \in 1..Len(items) |-> ResponseModel(fields, items[i])]

(* ------------------------------- Init --------------------------------- *)
(* The handle is set or unset at import time and never changes.  With a
   handle, the collections filled outside this API hold any records of their
   pools, MaxRecords in all at most; without one there is no store to hold
   any.  No application or contact message has been submitted yet, and no
   request has been served. *)
Init ==
  /\ db \in BOOLEAN
  /\ IF db
       THEN \E cat \in SeqsUpTo(CategoryPool, MaxRecords) :
            \E prod \in SeqsUpTo(ProductPool, MaxRecords - Len(cat)) :
            \E sec \in SeqsUpTo(SectorPool, MaxRecords - Len(cat) - Len(prod)) :
            \E news \in SeqsUpTo(NewsPool, MaxRecords - Len(cat) - Len(prod) - Len(sec)) :
            \E doc \in SeqsUpTo(DocumentPool,
                         MaxRecords - Len(cat) - Len(prod) - Len(sec) - Len(news)) :
            \E job \in SeqsUpTo(JobPool,
                         MaxRecords - Len(cat) - Len(prod) - Len(sec) - Len(news) - Len(doc)) :
            \E com \in SeqsUpTo(CompanyProfilePool,
                         MaxRecords - Len(cat) - Len(prod) - Len(sec) - Len(news)
                           - Len(doc) - Len(job)) :
              store = [EmptyStore EXCEPT
                         !["category"] = Stored("category", cat),
                         !["product"] = Stored("product", prod),
                         !["sector"] = Stored("sector", sec),
                         !["news"] = Stored("news", news),
                         !["document"] = Stored("document", doc),
                         !["job"] = Stored("job", job),
                         !["companyprofile"] = Stored("companyprofile", com)]
       ELSE store = EmptyStore
  /\ request = [op |-> "none"]
  /\ outcome = [call |-> "none"]
  /\ response = [status |-> 0]

Idle == request.op = "none"

(* A read handler: one get_documents call with answer `res`; a 500 when it
   raised, else `rendered`, the handler's rendering of res.items. *)
Serve(req, res, rendered) ==
  /\ Idle
  /\ request' = req
  /\ outcome' = [call |-> IF res.raised THEN "raised" ELSE "ok"]
  /\ response' = IF res.raised THEN ServerError ELSE rendered
  /\ UNCHANGED <<db, store>>

(* GET / *)
root ==
  /\ Idle
  /\ request' = [op |-> "root"]
  /\ outcome' = [call |-> "none"]
  /\ response' = Ok([message |-> "Chemical Company API running"])
  /\ UNCHANGED <<db, store>>

(* GET /api/categories *)
list_categories ==
  \E up \in BOOLEAN :
    LET res == get_documents("category", EmptyFilter, 0, up)
    IN Serve([op |-> "list_categories"],
             res,
             Ok(ResponseList(CategoryFields, _serialize_list(res.items))))

(* variant: the category parameter never reaches the filter *)
ProductFilter_ignoresCategory(category, q) ==
  IF TruthyText(q)
    THEN "$or" :> << [field |-> "name", regex |-> q[1]],
                     [field |-> "summary", regex |-> q[1]],
                     [field |-> "description", regex |-> q[1]],
                     [field |-> "keywords", regex |-> q[1]] >>
    ELSE EmptyFilter

(* GET /api/products?category=&q= *)
ProductFilter(category, q) ==
  (IF Truthy(category) THEN "category" :> category[1] ELSE EmptyFilter)
  @@ (IF TruthyText(q)
        THEN "$or" :> << [field |-> "name", regex |-> q[1]],
                         [field |-> "summary", regex |-> q[1]],
                         [field |-> "description", regex |-> q[1]],
                         [field |-> "keywords", regex |-> q[1]] >>
        ELSE EmptyFilter)

list_products ==
  \E category \in Opt(CategoryInputs), q \in Opt(QInputs), up \in BOOLEAN :
    LET res == get_documents("product", ProductFilter(category, q), 0, up)
    IN Serve([op |-> "list_products", category |-> category, q |-> q],
             res,
             Ok(ResponseList(ProductFields, _serialize_list(res.items))))

(* variant: no emptiness check, items[0] raises on an empty list *)
FirstOr404_unchecked(fields, detail, items) ==
  IF items = <<>>
    THEN ServerError
    ELSE Ok(ResponseModel(fields, PopId(items[1])))

(* The single-item handlers: 404 when nothing is found, else items[0]. *)
FirstOr404(fields, detail, items) ==
  IF items = <<>>
    THEN HTTPException(404, detail)
    ELSE Ok(ResponseModel(fields, PopId(items[1])))

(* GET /api/products/{slug} *)
get_product ==
  \E slug \in ProductSlugInputs, up \in BOOLEAN :
    LET res == get_documents("product", "slug" :> slug, 1, up)
    IN Serve([op |-> "get_product", slug |-> slug],
             res,
             FirstOr404(ProductFields, "Product not found", res.items))

(* GET /api/sectors *)
list_sectors ==
  \E up \in BOOLEAN :
    LET res == get_documents("sector", EmptyFilter, 0, up)
    IN Serve([op |-> "list_sectors"],
             res,
             Ok(ResponseList(SectorFields, _serialize_list(res.items))))

(* GET /api/sectors/{slug} *)
get_sector ==
  \E slug \in SectorSlugInputs, up \in BOOLEAN :
    LET res == get_documents("sector", "slug" :> slug, 1, up)
    IN Serve([op |-> "get_sector", slug |-> slug],
             res,
             FirstOr404(SectorFields, "Sector not found", res.items))

(* variant: the filter names a field no record has *)
NewsFilter_wrongField(tag) == IF Truthy(tag) THEN "tag" :> tag[1] ELSE EmptyFilter

(* GET /api/news?tag= *)
NewsFilter(tag) == IF Truthy(tag) THEN "tags" :> tag[1] ELSE EmptyFilter

list_news ==
  \E tag \in Opt(TagInputs), up \in BOOLEAN :
    LET res == get_documents("news", NewsFilter(tag), 0, up)
    IN Serve([op |-> "list_news", tag |-> tag],
             res,
             Ok(ResponseList(NewsFields, _serialize_list(res.items))))

(* GET /api/documents?product=&category=&language= *)
DocumentFilter(product, category, language) ==
  (IF Truthy(product) THEN "product_slug" :> product[1] ELSE EmptyFilter)
  @@ (IF Truthy(category) THEN "category" :> category[1] ELSE EmptyFilter)
  @@ (IF Truthy(language) THEN "language" :> language[1] ELSE EmptyFilter)

list_documents ==
  \E product \in Opt({"p1"}), category \in Opt({"catalog"}),
     language \in Opt({"it"}), up \in BOOLEAN :
    LET res == get_documents("document", DocumentFilter(product, category, language), 0, up)
    IN Serve([op |-> "list_documents", product |-> product, category |-> category,
              language |-> language],
             res,
             Ok(ResponseList(DocumentFields, _serialize_list(res.items))))

(* GET /api/jobs?department= *)
JobFilter(department) ==
  IF Truthy(department) THEN "department" :> department[1] ELSE EmptyFilter

list_jobs ==
  \E department \in Opt(DepartmentInputs), up \in BOOLEAN :
    LET res == get_documents("job", JobFilter(department), 0, up)
    IN Serve([op |-> "list_jobs", department |-> department],
             res,
             Ok(ResponseList(JobFields, _serialize_list(res.items))))

(* A write handler: the body is validated before the handler runs (422 and
   no store call when a required field is missing); then one create_document
   call, which raises when the handle is unset or the store does not answer. *)
Submit(op, coll, fields, required, body, up) ==
  /\ Idle
  /\ request' = [op |-> op, body |-> body]
  /\ UNCHANGED db
  /\ IF MissingFields(required, body) # {}
       THEN /\ response' = ValidationError(MissingFields(required, body))
            /\ outcome' = [call |-> "none"]
            /\ UNCHANGED store
       ELSE IF ~db \/ ~up
         THEN /\ response' = ServerError
              /\ outcome' = [call |-> "raised"]
              /\ UNCHANGED store
         ELSE /\ TotalRecords(store) < MaxRecords   \* bound on the store's size
              /\ store' = create_document(coll, Validate(fields, body))
              /\ outcome' = [call |-> "ok"]
              /\ response' = Ok([status |-> "ok"])

(* POST /api/applications *)
submit_application ==
  \E body \in ApplicationBodies, up \in BOOLEAN :
    Submit("submit_application", "application", ApplicationFields,
           ApplicationRequired, body, up)

(* variant: the contact handler writes to the application collection *)
submit_contact_wrongCollection ==
  \E body \in ContactBodies, up \in BOOLEAN :
    Submit("submit_contact", "application", ContactMessageFields,
           ContactMessageRequired, body, up)

(* POST /api/contact *)
submit_contact ==
  \E body \in ContactBodies, up \in BOOLEAN :
    Submit("submit_contact", "contactmessage", ContactMessageFields,
           ContactMessageRequired, body, up)

(* variant: a missing profile treated like a missing product *)
CompanyOrDefault_404(items) ==
  IF items = <<>>
    THEN HTTPException(404, "Company not found")
    ELSE Ok(PopId(items[1]))

(* GET /api/company: response_model=CompanyProfile | dict lets a plain dict
   through as it is, so only the pop removes the identifier. *)
CompanyOrDefault(items) ==
  IF items = <<>>
    THEN Ok([company_name |-> "Azienda Chimica"])
    ELSE Ok(PopId(items[1]))

get_company ==
  \E up \in BOOLEAN :
    LET res == get_documents("companyprofile", EmptyFilter, 1, up)
    IN Serve([op |-> "get_company"],
             res,
             CompanyOrDefault(res.items))

(* variant: the error text appended whole *)
ProbeError_uncut(e) == <<"Connected but Error: ">> \o e

(* GET /test.  The probe db.list_collection_names() answers with the names
   of the database's collections or raises with an error text; the two
   environment variables are read at the end.  The labels are the source's
   without their leading symbol; `database` is the label followed by the
   characters appended to it. *)
ProbeError(e) == <<"Connected but Error: ">> \o Take(e, ErrorCut)

DatabaseReport(probe, url, name) ==
  LET r0 == [backend |-> "Running",
             database |-> <<"Not Available">>,
             database_url |-> "None",
             database_name |-> "None",
             connection_status |-> "Not Connected",
             collections |-> <<>>]
      r1 == IF db
              THEN LET c == [r0 EXCEPT !.database = <<"Available">>,
                                       !.database_url = "Configured",
                                       !.database_name = "Connected",
                                       !.connection_status = "Connected"]
                   IN IF probe.call = "ok"
                        THEN [c EXCEPT !.collections = Take(probe.names, CollectionsCut),
                                       !.database = <<"Connected & Working">>]
                        ELSE [c EXCEPT !.database = ProbeError(probe.error)]
              ELSE [r0 EXCEPT !.database = <<"Available but not initialized">>]
  IN [r1 EXCEPT !.database_url = IF url THEN "Set" ELSE "Not Set",
                !.database_name = IF name THEN "Set" ELSE "Not Set"]

test_database ==
  \E probe \in ProbeAnswers, url \in BOOLEAN, name \in BOOLEAN :
    /\ Idle
    /\ request' = [op |-> "test_database"]
    /\ outcome' = IF db THEN probe ELSE [call |-> "none"]
    /\ response' = Ok(DatabaseReport(probe, url, name))
    /\ UNCHANGED <<db, store>>

(* The server loop: the response is sent and the next request is awaited. *)
Deliver ==
  /\ ~Idle
  /\ request' = [op |-> "none"]
  /\ outcome' = [call |-> "none"]
  /\ response' = [status |-> 0]
  /\ UNCHANGED <<db, store>>

Next ==
  \/ root
  \/ list_categories
  \/ list_products
  \/ get_product
  \/ list_sectors
  \/ get_sector
  \/ list_news
  \/ list_documents
  \/ list_jobs
  \/ submit_application
  \/ submit_contact
  \/ get_company
  \/ test_database
  \/ Deliver

Spec == Init /\ [][Next]_vars

(* ====================================================================== *)
(*                              Properties                                *)
(* ====================================================================== *)
ListOps ==
  {"list_categories", "list_products", "list_sectors", "list_news",
   "list_documents", "list_jobs"}

ItemOps == {"get_product", "get_sector", "get_company"}

PostOps == {"submit_application", "submit_contact"}

ReadOnlyCollections == Collections \ {"application", "contactmessage"}

Answered == outcome.call = "ok"

(* the records of coll that satisfy keep, in store order, as they are sent *)
Sent(coll, keep(_)) == _serialize_list(SelectSeq(store[coll], keep))

(* y occurs in s as a literal substring, letter case ignored *)
ContainsFolded(s, y) ==
  \E i \in 0..(Len(s) - Len(y)) :
    \A j \in 1..Len(y) : Fold(s[i + j]) = Fold(y[j])

LiteralMatch(doc, y) ==
  \/ \E f \in {"name", "summary", "description"} \cap DOMAIN doc : ContainsFolded(doc[f], y)
  \/ \E i \in 1..Len(doc.keywords) : ContainsFolded(doc.keywords[i], y)

(* ---- C1 ---- *)
(* C1: no response of a read endpoint or of a POST endpoint carries the
   store-internal field `_id`, neither in a record of a list nor in a single
   item, whatever the store holds. *)
C1_NoInternalId ==
  /\ (request.op \in ListOps /\ response.status = 200) =>
        \A i \in 1..Len(response.body) : "_id" \notin DOMAIN response.body[i]
  /\ (request.op \in ListOps /\ response.status # 200) =>
        "_id" \notin DOMAIN response.body
  /\ request.op \in ItemOps \cup PostOps => "_id" \notin DOMAIN response.body

(* a stored company profile (which carries `_id`) has been returned *)
C1_Witness ==
  /\ request.op = "get_company"
  /\ response.status = 200
  /\ store["companyprofile"] # <<>>
  /\ "_id" \in DOMAIN store["companyprofile"][1]

(* ---- C2 ---- *)
ContactStep ==
  /\ Idle
  /\ request'.op = "submit_contact"
  /\ ContactMessageRequired \subseteq DOMAIN request'.body

ContactAccepted ==
  /\ response' = Ok([status |-> "ok"])
  /\ Len(store'["contactmessage"]) = Len(store["contactmessage"]) + 1
  /\ SubSeq(store'["contactmessage"], 1, Len(store["contactmessage"]))
       = store["contactmessage"]
  /\ PopId(store'["contactmessage"][Len(store'["contactmessage"])]) = request'.body
  /\ \A c \in Collections \ {"contactmessage"} : store'[c] = store[c]

(* C2 as stated: every POST /api/contact with name, email and message present
   returns {"status":"ok"} and adds exactly one record, holding the submitted
   values, to `contactmessage`, and changes no other collection. *)
C2_Original == [][ContactStep => ContactAccepted]_vars

(* C2, amended: the same, for the requests whose insert the store accepts. *)
C2_ContactStored ==
  [][(ContactStep /\ outcome'.call = "ok") => ContactAccepted]_vars

(* a complete contact message, with an optional field, has been stored *)
C2_Witness ==
  /\ request.op = "submit_contact"
  /\ Answered
  /\ "topic" \in DOMAIN request.body
  /\ store["contactmessage"] # <<>>

(* ---- C3 ---- *)
(* C3: a POST /api/applications whose body lacks `email` ends in a 4xx
   validation error and leaves every collection as it was. *)
C3_MissingEmailRejected ==
  [][(Idle /\ request'.op = "submit_application" /\ "email" \notin DOMAIN request'.body)
       => (response'.status \in 400..499 /\ store' = store)]_vars

(* an application without email, otherwise complete, was rejected while the
   store was ready to take it *)
C3_Witness ==
  /\ request.op = "submit_application"
  /\ "email" \notin DOMAIN request.body
  /\ "name" \in DOMAIN request.body
  /\ db
  /\ TotalRecords(store) < MaxRecords
  /\ response.status = 422

(* ---- C4 ---- *)
(* C4: GET /api/products?q=Y, when answered, returns exactly the stored
   products in which Y occurs, letter case ignored, as a literal substring of
   name, summary, description or a keywords entry. *)
C4_LiteralSubstring ==
  (request.op = "list_products" /\ request.category = <<>> /\ request.q # <<>>
     /\ Answered) =>
    response = Ok(Sent("product", LAMBDA d : LiteralMatch(d, request.q[1])))

(* ---- C5 ---- *)
OnlyCategory ==
  /\ response.status = 200 =>
       \A i \in 1..Len(response.body) : response.body[i].category = request.category[1]

(* C5 as stated: for every supplied `category` value X, the empty string
   included, only records whose category equals X are returned. *)
C5_Original ==
  (request.op = "list_products" /\ request.category # <<>>) => OnlyCategory

(* C5, amended: for every non-empty X only records whose category equals X,
   case-sensitively, are returned. *)
C5_ExactCategory ==
  (request.op = "list_products" /\ Truthy(request.category)) => OnlyCategory

(* a category filter has kept one product and left out one whose category
   differs only in letter case *)
C5_Witness ==
  /\ request.op = "list_products"
  /\ request.category = <<"cat">>
  /\ response.status = 200
  /\ Len(response.body) = 1
  /\ \E i \in 1..Len(store["product"]) : store["product"][i].category = "Cat"

(* ---- C6 ---- *)
TaggedNews ==
  response = Ok(Sent("news", LAMBDA d : \E i \in 1..Len(d.tags) : d.tags[i] = request.tag[1]))

(* C6 as stated, read on the requests the store answers: for every supplied
   `tag` value T, exactly the news whose tags list has T as a member are
   returned. *)
C6_Original ==
  (request.op = "list_news" /\ request.tag # <<>> /\ Answered) => TaggedNews

(* C6, amended: for every non-empty T, on the requests the store answers,
   exactly the news whose tags list has T as a member are returned. *)
C6_TagMembership ==
  (request.op = "list_news" /\ Truthy(request.tag) /\ Answered) => TaggedNews

(* tag "t" has kept the news tagged "t" and left out the one tagged "tt" *)
C6_Witness ==
  /\ request.op = "list_news"
  /\ request.tag = <<"t">>
  /\ response.status = 200
  /\ Len(response.body) = 1
  /\ Len(store["news"]) = 2
  /\ \E i \in 1..2 : store["news"][i].tags = <<"tt", "u">>

(* ---- C7 ---- *)
WithSlug(coll) == SelectSeq(store[coll], LAMBDA d : d.slug = request.slug)

FoundOr404(coll, detail) ==
  IF WithSlug(coll) = <<>>
    THEN response = [status |-> 404, body |-> [detail |-> detail]]
    ELSE response = Ok(PopId(WithSlug(coll)[1]))

(* C7 as stated: the single-item endpoints answer 404 with their fixed detail
   when no stored record has the slug, else the first such record. *)
C7_Original ==
  /\ request.op = "get_product" => FoundOr404("product", "Product not found")
  /\ request.op = "get_sector" => FoundOr404("sector", "Sector not found")

(* C7, amended: so they do when the store answers the lookup; when the handle
   is unset or the lookup raises, the response is a 500 and never a 404. *)
C7_SlugLookup ==
  /\ (request.op = "get_product" /\ Answered) =>
        FoundOr404("product", "Product not found")
  /\ (request.op = "get_sector" /\ Answered) =>
        FoundOr404("sector", "Sector not found")
  /\ (request.op \in {"get_product", "get_sector"} /\ ~Answered) =>
        response.status = 500

(* two different products share the slug asked for, and one was returned *)
C7_Witness ==
  /\ request.op = "get_product"
  /\ response.status = 200
  /\ Len(WithSlug("product")) = 2
  /\ PopId(WithSlug("product")[1]) # PopId(WithSlug("product")[2])

(* ---- C8 ---- *)
ProfileOrFallback ==
  IF store["companyprofile"] = <<>>
    THEN response = Ok([company_name |-> "Azienda Chimica"])
    ELSE response = Ok(PopId(store["companyprofile"][1]))

(* C8 as stated: GET /api/company never answers 404, returns exactly the
   fallback when no profile is stored and the first stored profile otherwise. *)
C8_Original ==
  request.op = "get_company" => (response.status # 404 /\ ProfileOrFallback)

(* C8, amended: it never answers 404; when the store answers, it returns
   exactly the fallback for an empty collection and the first stored profile
   otherwise. *)
C8_CompanyFallback ==
  /\ request.op = "get_company" => response.status # 404
  /\ (request.op = "get_company" /\ Answered) => ProfileOrFallback

(* the store answered with no profile and the fallback was returned *)
C8_Witness ==
  /\ request.op = "get_company"
  /\ Answered
  /\ store["companyprofile"] = <<>>
  /\ response.status = 200

(* ---- C9 ---- *)
(* C9: GET /test answers 200 whether the handle is unset, the probe succeeds
   or the probe raises; a probe failure is reported as the status string
   followed by at most 50 characters of the error text, and at most 10
   collection names are reported. *)
C9_DiagnosticNeverFails ==
  request.op = "test_database" =>
    /\ response.status = 200
    /\ Len(response.body.collections) <= 10
    /\ ~db => response.body.database = <<"Available but not initialized">>
    /\ (db /\ outcome.call = "ok") =>
          /\ response.body.database = <<"Connected & Working">>
          /\ response.body.collections = Take(outcome.names, 10)
    /\ (db /\ outcome.call = "raised") =>
          /\ Head(response.body.database) = "Connected but Error: "
          /\ Len(Tail(response.body.database)) <= 50
          /\ Tail(response.body.database) = Take(outcome.error, 50)

(* the probe raised with an error text longer than 50 characters *)
C9_Witness ==
  /\ request.op = "test_database"
  /\ db
  /\ outcome.call = "raised"
  /\ Len(outcome.error) > 50

(* ---- C10 ---- *)
Grows(coll, op) ==
  \/ store'[coll] = store[coll]
  \/ /\ Len(store'[coll]) = Len(store[coll]) + 1
     /\ SubSeq(store'[coll], 1, Len(store[coll])) = store[coll]
     /\ Idle
     /\ request'.op = op
     /\ response'.status = 200

(* C10: no step changes category, product, sector, news, document, job or
   companyprofile; application and contactmessage only grow, by one record
   appended by a successful POST to their own endpoint, the records already
   there kept as they are; and a step adds at most one record in all. *)
C10_WritesOnlyByPost ==
  [][/\ \A c \in ReadOnlyCollections : store'[c] = store[c]
     /\ Grows("application", "submit_application")
     /\ Grows("contactmessage", "submit_contact")
     /\ TotalRecords(store') <= TotalRecords(store) + 1]_vars

(* both write endpoints have stored a record *)
C10_Witness ==
  /\ store["application"] # <<>>
  /\ store["contactmessage"] # <<>>

====
